---- MODULE Spec2Model ----
(***************************************************************************)
(* Changelog monitor (src/src/index.ts): a Cloudflare Worker with two      *)
(* entry points that share one KV namespace (CHANGELOG_KV).                *)
(*   handleScheduled            the detection cycle (cron or manual "/")   *)
(*   fetch POST /confirm/:id    the confirmation of a pending post         *)
(* Every `await` of the source is a point where another invocation may     *)
(* run, so each action below is the code between two awaits.               *)
(***************************************************************************)
EXTENDS Integers, Sequences, FiniteSets, TLC

(* ------------------------------ bounds -------------------------------- *)
\* invocations of handleScheduled started in one behaviour
MaxCycles == 2
\* confirmation POSTs started in one behaviour
MaxConfirms == 2
\* values drawn from crypto.randomUUID() for post ids in one behaviour
MaxPosts == 2
\* lines of a text handed to calculateDiff when it is followed on its own
MaxLines == 2
\* config.maxAttempts of a call of withRetry that goes on past the cap of
\* the delay
MaxAttemptsLong == 6
\* length of a recap handed to postToX when its truncation is followed on
\* its own
MaxRecapLength == 283

(* --------------------------- program constants ------------------------ *)
\* RETRY_CONFIG.maxAttempts
MaxAttempts == 3
\* { ...RETRY_CONFIG, maxAttempts: 2 } of sendTelegramMessage and postToX
MaxAttemptsShort == 2
\* RETRY_CONFIG.initialDelay, .maxDelay and .backoffMultiplier
InitialDelay == 1000
MaxDelay == 10000
BackoffMultiplier == 2

(* ------------------------------- texts -------------------------------- *)
\* A text is the sequence of its line tokens as diffLines tokenizes it: each
\* token is <<line, nl>>, nl telling whether the line ends with "\n".  Only
\* the last token of a text may have nl = FALSE.
Tok(line, nl) == <<line, nl>>

\* "Line1\nLine2" and "Line1\nLine2\nLine3"
TextA == << Tok("Line1", TRUE), Tok("Line2", FALSE) >>
TextB == << Tok("Line1", TRUE), Tok("Line2", TRUE), Tok("Line3", FALSE) >>

\* what convertToMarkdown(fetch(TARGET_CHANGELOG_URL)) may yield
Contents == { TextA, TextB }

\* a string | null value: null, or the string t
NULL == << >>
Some(t) == << t >>

\* the null of getGeminiRecap
NoRecap == "null"

\* what getGeminiRecap may return when it returns text
Recaps == { "recapA", "recapB" }

\* the value of env.TARGET_CHANGELOG_URL
ChangelogUrl == "url"

\* the sentinel calculateDiff returns when no part is added or removed
NoDiff == << <<"!", "No textual differences found.">> >>

(* ------------------------- diffLines (jsdiff) -------------------------- *)
Max(a, b) == IF a >= b THEN a ELSE b

RECURSIVE LcsLen(_, _, _, _)
\* length of a longest common subsequence of a[i..] and b[j..]
LcsLen(a, b, i, j) ==
  IF i > Len(a) \/ j > Len(b) THEN 0
  ELSE IF a[i] = b[j] THEN 1 + LcsLen(a, b, i + 1, j + 1)
  ELSE Max(LcsLen(a, b, i + 1, j), LcsLen(a, b, i, j + 1))

RECURSIVE EditScript(_, _, _, _)
\* a shortest edit script from a[i..] to b[j..]: <<op, token>>, op one of
\* "=" (common), "-" (removed), "+" (added)
EditScript(a, b, i, j) ==
  IF i > Len(a) /\ j > Len(b) THEN << >>
  ELSE IF i <= Len(a) /\ j <= Len(b) /\ a[i] = b[j]
    THEN << <<"=", a[i]>> >> \o EditScript(a, b, i + 1, j + 1)
  ELSE IF j > Len(b) \/ (i <= Len(a) /\ LcsLen(a, b, i + 1, j) >= LcsLen(a, b, i, j + 1))
    THEN << <<"-", a[i]>> >> \o EditScript(a, b, i + 1, j)
  ELSE << <<"+", b[j]>> >> \o EditScript(a, b, i, j + 1)

\* the tokens of script s with operation op, in order
OpsOf(s, op) == SelectSeq(s, LAMBDA e : e[1] = op)

RECURSIVE ChangedPrefixLen(_)
\* how many leading entries of s are not common
ChangedPrefixLen(s) ==
  IF s = << >> \/ s[1][1] = "=" THEN 0 ELSE 1 + ChangedPrefixLen(Tail(s))

RECURSIVE CommonPrefixLen(_)
CommonPrefixLen(s) ==
  IF s = << >> \/ s[1][1] # "=" THEN 0 ELSE 1 + CommonPrefixLen(Tail(s))

TokensOf(s) == [k \in 1..Len(s) |-> s[k][2]]

RECURSIVE PartsOf(_)
\* the Change[] of the script: maximal runs, a changed region giving its
\* removed part and then its added part.  A part is [kind, value].
PartsOf(s) ==
  IF s = << >> THEN << >>
  ELSE IF s[1][1] = "="
    THEN LET n == CommonPrefixLen(s)
         IN  << [kind |-> "common", value |-> TokensOf(SubSeq(s, 1, n))] >>
             \o PartsOf(SubSeq(s, n + 1, Len(s)))
  ELSE LET n   == ChangedPrefixLen(s)
           reg == SubSeq(s, 1, n)
           rem == TokensOf(OpsOf(reg, "-"))
           add == TokensOf(OpsOf(reg, "+"))
       IN  (IF rem = << >> THEN << >> ELSE << [kind |-> "removed", value |-> rem] >>)
           \o (IF add = << >> THEN << >> ELSE << [kind |-> "added", value |-> add] >>)
           \o PartsOf(SubSeq(s, n + 1, Len(s)))

diffLines(oldText, newText) == PartsOf(EditScript(oldText, newText, 1, 1))

(* ---------------------------- calculateDiff ---------------------------- *)
\* part.value.split('\n').map(line => mark + ' ' + line): one rendered line
\* per token, and one more, empty, when the value ends with "\n"
RenderPart(mark, value) ==
  [k \in 1..Len(value) |-> <<mark, value[k][1]>>]
  \o (IF value[Len(value)][2] THEN << <<mark, "">> >> ELSE << >>)

RECURSIVE RenderParts(_)
RenderParts(parts) ==
  IF parts = << >> THEN << >>
  ELSE (CASE parts[1].kind = "added"   -> RenderPart("+", parts[1].value)
          [] parts[1].kind = "removed" -> RenderPart("-", parts[1].value)
          [] OTHER -> << >>)
       \o RenderParts(Tail(parts))

\* HasChanges set only by an added part: line 473 forgotten
HasChanges_AddedOnly(parts) == \E k \in 1..Len(parts) : parts[k].kind = "added"

HasChanges(parts) == \E k \in 1..Len(parts) : parts[k].kind \in {"added", "removed"}

\* calculateDiff without the check of line 502: the rendered diff is returned
\* even when it is empty
calculateDiff_NoSentinel(oldText, newText) ==
  RenderParts(diffLines(oldText, newText))

calculateDiff(oldText, newText) ==
  LET differences == diffLines(oldText, newText)
  IN  IF ~HasChanges(differences) THEN NoDiff ELSE RenderParts(differences)

(* ------------------------------ withRetry ------------------------------ *)
\* outs[k] tells whether attempt k of fn() resolves (TRUE) or throws.  The
\* loop returns at the first attempt that resolves and throws lastError after
\* maxAttempts failures.
FirstSuccess(outs, maxAttempts) ==
  IF \E k \in 1..maxAttempts : outs[k]
    THEN CHOOSE k \in 1..maxAttempts : outs[k] /\ \A m \in 1..(k - 1) : ~outs[m]
    ELSE 0

withRetry(outs, maxAttempts) ==
  LET k == FirstSuccess(outs, maxAttempts)
  IN  [ok |-> k # 0, attempts |-> IF k # 0 THEN k ELSE maxAttempts]

\* the outcomes of the attempts: f failures, then success.  Attempts after
\* the first success are never made.
Outcomes(maxAttempts) ==
  { [k \in 1..maxAttempts |-> k > f] : f \in 0..maxAttempts }

(* ----------------------------- validateEnv ----------------------------- *)
\* lines 143-152: requiredSecrets
RequiredSecrets ==
  { "GEMINI_API_KEY", "TELEGRAM_BOT_TOKEN", "TELEGRAM_CHAT_ID", "TARGET_CHANGELOG_URL",
    "X_API_KEY", "X_API_SECRET_KEY", "X_ACCESS_TOKEN", "X_ACCESS_TOKEN_SECRET" }

\* an Env with every secret set and no optional setting ("" is unset); missing
\* holds the required secrets that are absent or empty
FullEnv == [ missing |-> {}, GEMINI_TEMPERATURE |-> "", GEMINI_MAX_TOKENS |-> "" ]

\* the Envs the worker is run with: the full one, one with valid settings,
\* each secret missing in turn, and each setting with values that are no
\* number or out of range
Envs ==
  { FullEnv, [FullEnv EXCEPT !.GEMINI_TEMPERATURE = "0.6", !.GEMINI_MAX_TOKENS = "250"] }
  \cup { [FullEnv EXCEPT !.missing = {secret}] : secret \in RequiredSecrets }
  \cup { [FullEnv EXCEPT !.GEMINI_TEMPERATURE = t] : t \in {"abc", "1.5", "-0.1"} }
  \cup { [FullEnv EXCEPT !.GEMINI_MAX_TOKENS = t] : t \in {"abc", "0"} }

\* a number, or NaN
NaN == [nan |-> TRUE, value |-> 0]
Num(v) == [nan |-> FALSE, value |-> v]

\* parseFloat of the setting, in tenths
parseFloat(str) ==
  CASE str = "0.6"  -> Num(6)
    [] str = "1.5"  -> Num(15)
    [] str = "-0.1" -> Num(-1)
    [] str = "250"  -> Num(2500)
    [] str = "0"    -> Num(0)
    [] OTHER        -> NaN

\* parseInt of the setting
parseInt(str) ==
  CASE str = "250"  -> Num(250)
    [] str = "0"    -> Num(0)
    [] str = "0.6"  -> Num(0)
    [] str = "1.5"  -> Num(1)
    [] str = "-0.1" -> Num(0)
    [] OTHER        -> NaN

\* validateEnv without lines 160-173: only the secrets are checked
validateEnv_SecretsOnly(e) ==
  { <<"Missing required secret", secret>> : secret \in e.missing }

\* lines 139-176: the errors of the Env
validateEnv(e) ==
  { <<"Missing required secret", secret>> : secret \in e.missing }
  \cup (IF e.GEMINI_TEMPERATURE # ""
           /\ LET temp == parseFloat(e.GEMINI_TEMPERATURE)
              IN  temp.nan \/ temp.value < 0 \/ temp.value > 10
        THEN { <<"Invalid", "GEMINI_TEMPERATURE">> } ELSE {})
  \cup (IF e.GEMINI_MAX_TOKENS # ""
           /\ LET tokens == parseInt(e.GEMINI_MAX_TOKENS)
              IN  tokens.nan \/ tokens.value < 1
        THEN { <<"Invalid", "GEMINI_MAX_TOKENS">> } ELSE {})

(* ------------------------------- the state ----------------------------- *)
\* the two ways handleScheduled is invoked: scheduled() and GET "/"
Cycles == { "cron", "manual" }
\* concurrent POST /confirm/:postID requests
Handlers == { "h1", "h2" }
\* crypto.randomUUID() values, in the order they are drawn
PostIds == 1..MaxPosts

\* JSON.parse of a key that is absent: no PendingPostData
NoPost == [recap |-> "", diff |-> << >>, originalChangelogUrl |-> "",
           timestamp |-> 0, status |-> "NONE"]

VARIABLES
  env,             \* the worker's Env: secrets and optional settings
  snapshot,        \* KV "latest_changelog_markdown"
  posts,           \* KV "post:<id>": the stored PendingPostData, or NoPost
  expiring,        \* whether "post:<id>" was last put with an expirationTtl
  nextId,          \* the next value crypto.randomUUID() returns
  cpc,             \* where each handleScheduled invocation is
  cycle,           \* its local variables
  hpc,             \* where each confirmation task is
  handler,         \* its local variables
  published,       \* every call of postToX made so far
  pubCalls,        \* per post id, how many times postToX was called
  confirmLog,      \* per post id, the outcomes of the completed confirmations
  overlap,         \* per post id, whether two confirmations ever overlapped
  created,         \* per post id, the PendingPostData it was created with
  cyclesStarted,
  confirmsStarted,
  served,          \* the post id of the confirmation page served last, or 0
  retry,           \* one call of withRetry, followed attempt by attempt
  compare,         \* one call of calculateDiff: its arguments and its result
  tweet            \* one call of postToX: its recap and the text it sends

vars == << env, snapshot, posts, expiring, nextId, cpc, cycle, hpc, handler,
           published, pubCalls, confirmLog, overlap, created,
           cyclesStarted, confirmsStarted, served, retry, compare, tweet >>

\* the worker's own state
workerVars == << env, snapshot, posts, expiring, nextId, cpc, cycle, hpc, handler,
                 published, pubCalls, confirmLog, overlap, created,
                 cyclesStarted, confirmsStarted, served >>
\* the calls of withRetry, calculateDiff and postToX that are followed on
\* their own
callVars == << retry, compare, tweet >>

kvVars == << snapshot, posts, expiring >>
cycleVars == << cpc, cycle, cyclesStarted >>
confirmVars == << hpc, handler, published, pubCalls, confirmLog, overlap,
                  confirmsStarted, served >>

\* locals of handleScheduled at its start; geminiCalls, drafts, notes,
\* snapPut, draftPut and delivered record what the invocation has done so far
CycleLocals ==
  [ fetched |-> FALSE,
    markdownContent |-> << >>, previousMarkdown |-> NULL, branch |-> "none",
    diff |-> << >>, recap |-> NoRecap, postId |-> 0,
    geminiCalls |-> 0, drafts |-> 0, notes |-> {},
    snapPut |-> "none", draftPut |-> "none", delivered |-> "none" ]

\* locals of the confirmation task at its start
HandlerLocals ==
  [ postID |-> 0, pendingPost |-> NoPost, loaded |-> NoPost, success |-> FALSE,
    outcome |-> "none", publisherCalls |-> 0, writes |-> 0 ]

\* no call of withRetry is followed
NoRetry ==
  [ operationName |-> "none", maxAttempts |-> 0, outs |-> << >>, attempt |-> 0,
    pc |-> "none", calls |-> 0, delays |-> << >>, lastError |-> 0, result |-> 0 ]

\* no call of calculateDiff is followed
NoCompare == [ oldText |-> << >>, newText |-> << >>, pc |-> "none", result |-> << >> ]

\* no call of postToX is followed for its text
NoTweet == [ recap |-> << >>, pc |-> "none", tweetText |-> << >> ]

WorkerInit ==
  /\ env \in Envs
  /\ snapshot = NULL
  /\ posts = [i \in PostIds |-> NoPost]
  /\ expiring = [i \in PostIds |-> FALSE]
  /\ nextId = 1
  /\ cpc = [c \in Cycles |-> "idle"]
  /\ cycle = [c \in Cycles |-> CycleLocals]
  /\ hpc = [h \in Handlers |-> "idle"]
  /\ handler = [h \in Handlers |-> HandlerLocals]
  /\ published = {}
  /\ pubCalls = [i \in PostIds |-> 0]
  /\ confirmLog = [i \in PostIds |-> << >>]
  /\ overlap = [i \in PostIds |-> FALSE]
  /\ created = [i \in PostIds |-> NoPost]
  /\ cyclesStarted = 0
  /\ confirmsStarted = 0
  /\ served = 0

Init ==
  /\ WorkerInit
  /\ retry = NoRetry
  /\ compare = NoCompare
  /\ tweet = NoTweet

(* ---------------------------- handleScheduled --------------------------- *)
\* the invocation returns: its locals are gone
CycleEnd(c) ==
  /\ cpc' = [cpc EXCEPT ![c] = "idle"]
  /\ cycle' = [cycle EXCEPT ![c] = CycleLocals]

\* AfterFetch without the check of line 205: a response that is not ok is
\* taken for the page
AfterFetch_IgnoreFailure(ok) == "get"

\* lines 202-212 and 255: where the invocation goes when the fetch with
\* retries has returned the page (ok) or thrown its last error
AfterFetch(ok) == IF ok THEN "get" ELSE "catch"

\* lines 184-213: the invocation starts and validates its environment; with
\* a valid one it fetches the page with retries and converts it to markdown.
\* The fetch touches no state of the worker, so the step is taken when the
\* fetch has settled.
CycleStart(c) ==
  /\ cpc[c] = "idle"
  /\ cyclesStarted < MaxCycles
  /\ cyclesStarted' = cyclesStarted + 1
  /\ IF validateEnv(env) # {}
       THEN /\ cycle' = [cycle EXCEPT ![c] = CycleLocals]
            /\ cpc' = [cpc EXCEPT ![c] = "envError"]
       ELSE \E outs \in Outcomes(MaxAttempts) :
              LET ok == withRetry(outs, MaxAttempts).ok
              IN  /\ cpc' = [cpc EXCEPT ![c] = AfterFetch(ok)]
                  /\ IF ok
                       THEN \E content \in Contents :
                              cycle' = [cycle EXCEPT ![c] =
                                          [CycleLocals EXCEPT !.fetched = TRUE,
                                                              !.markdownContent = content]]
                       ELSE cycle' = [cycle EXCEPT ![c] = CycleLocals]
  /\ UNCHANGED << callVars, env, kvVars, nextId, confirmVars, created >>

\* lines 189-197: validation failed; one notification is attempted, its
\* failure is swallowed, and the invocation returns
CycleEnvError(c) ==
  /\ cpc[c] = "envError"
  /\ CycleEnd(c)
  /\ UNCHANGED << callVars, env, kvVars, nextId, confirmVars, created, cyclesStarted >>

\* CycleBranch without the comparison of line 221: identical content is
\* handed to calculateDiff like any other
CycleBranch_NoSameCheck(previousMarkdown, markdownContent) ==
  IF previousMarkdown = NULL THEN "first"
  ELSE IF calculateDiff(previousMarkdown[1], markdownContent) = NoDiff THEN "unchanged"
  ELSE "changed"

\* lines 218-230: which branch the invocation takes once it holds the
\* previous and the current markdown
CycleBranch(previousMarkdown, markdownContent) ==
  IF previousMarkdown = NULL THEN "first"
  ELSE IF previousMarkdown = Some(markdownContent) THEN "same"
  ELSE IF calculateDiff(previousMarkdown[1], markdownContent) = NoDiff THEN "unchanged"
  ELSE "changed"

\* AfterGet without the branch of line 218: a first observation is summarized
\* like a change
AfterGet_FirstSummarized(branch) ==
  CASE branch = "first"     -> "gemini"
    [] branch = "same"      -> "idle"
    [] branch = "unchanged" -> "storeSnapshot"
    [] branch = "changed"   -> "gemini"

\* lines 218-233: where the invocation goes next on each branch
AfterGet(branch) ==
  CASE branch = "first"     -> "storeFirst"
    [] branch = "same"      -> "idle"
    [] branch = "unchanged" -> "storeSnapshot"
    [] branch = "changed"   -> "gemini"

\* lines 215-230: read the snapshot and decide
CycleGet(c) ==
  /\ cpc[c] = "get"
  /\ LET prev   == snapshot
         cur    == cycle[c].markdownContent
         branch == CycleBranch(prev, cur)
         locals == [cycle[c] EXCEPT !.previousMarkdown = prev, !.branch = branch,
                      !.diff = IF branch \in {"unchanged", "changed"}
                                 THEN calculateDiff(prev[1], cur) ELSE << >>]
     IN  IF AfterGet(branch) = "idle"
           THEN CycleEnd(c)
           ELSE /\ cycle' = [cycle EXCEPT ![c] = locals]
                /\ cpc' = [cpc EXCEPT ![c] = AfterGet(branch)]
  /\ UNCHANGED << callVars, env, kvVars, nextId, confirmVars, created, cyclesStarted >>

\* line 220: first observation, store the current markdown.  The put may
\* reject, which the catch of line 255 handles.
CycleStoreFirst(c) ==
  /\ cpc[c] = "storeFirst"
  /\ \E ok \in BOOLEAN :
       IF ok
         THEN /\ snapshot' = Some(cycle[c].markdownContent)
              /\ CycleEnd(c)
         ELSE /\ snapshot' = snapshot
              /\ cycle' = [cycle EXCEPT ![c].snapPut = "failed"]
              /\ cpc' = [cpc EXCEPT ![c] = "catch"]
  /\ UNCHANGED << callVars, env, posts, expiring, nextId, confirmVars, created, cyclesStarted >>

\* HasRecap testing only for null: an empty recap makes a draft
HasRecap_NullOnly(recap) == recap # NoRecap

\* line 233, if (recap): neither null nor the empty string
HasRecap(recap) == recap \notin {"", NoRecap}

\* AfterRecap returning early when there is no recap: the put of line 253 is
\* skipped and the snapshot stays
AfterRecap_KeepSnapshot(has) == IF has THEN "putDraft" ELSE "catch"

\* lines 233-253: with a recap the draft is put next; without one only the
\* put of the snapshot is left
AfterRecap(has) == IF has THEN "putDraft" ELSE "storeSnapshot"

\* randomUUID returning the same value at every call
randomUUID_Constant(next) == 1

\* line 235, crypto.randomUUID(): a value that was never returned before
randomUUID(next) == next

\* lines 231-242: getGeminiRecap (with retries; null when every attempt
\* fails or the response holds no text), then, for a non-empty recap, a
\* fresh post id and the PendingPostData to store
CycleGemini(c) ==
  /\ cpc[c] = "gemini"
  /\ \E outs \in Outcomes(MaxAttempts) :
     \E text \in IF withRetry(outs, MaxAttempts).ok THEN Recaps \cup {"", NoRecap}
                                                    ELSE {NoRecap} :
       LET recap  == text
           locals == [cycle[c] EXCEPT !.geminiCalls = @ + 1]
       IN  \* a recap needs a post id: at most MaxPosts are drawn
           /\ HasRecap(recap) => nextId <= MaxPosts
           /\ IF HasRecap(recap)
               THEN /\ cycle' = [cycle EXCEPT ![c] =
                                   [locals EXCEPT !.recap = recap,
                                                  !.postId = randomUUID(nextId)]]
                    /\ nextId' = nextId + 1
                    /\ cpc' = [cpc EXCEPT ![c] = AfterRecap(TRUE)]
               ELSE /\ cycle' = [cycle EXCEPT ![c] = locals]
                    /\ nextId' = nextId
                    /\ cpc' = [cpc EXCEPT ![c] = AfterRecap(FALSE)]
  /\ UNCHANGED << callVars, env, kvVars, confirmVars, created, cyclesStarted >>

\* lines 236-242
NewPendingPost(recap, diff, stamp) ==
  [recap |-> recap, diff |-> diff, originalChangelogUrl |-> ChangelogUrl,
   timestamp |-> stamp, status |-> "PENDING_CONFIRMATION"]

\* AfterDraftPut going on to the notification when the put rejected
AfterDraftPut_NotifyAnyway(ok) == "notify"

\* lines 244-248 and 255: after the awaited put the notification follows; a
\* put that rejects throws to the catch
AfterDraftPut(ok) == IF ok THEN "notify" ELSE "catch"

\* line 244: put the pending post with expirationTtl 86400
CyclePutDraft(c) ==
  /\ cpc[c] = "putDraft"
  /\ \E ok \in BOOLEAN :
       IF ok
         THEN LET post == NewPendingPost(cycle[c].recap, cycle[c].diff, cyclesStarted)
              IN  /\ posts' = [posts EXCEPT ![cycle[c].postId] = post]
                  /\ expiring' = [expiring EXCEPT ![cycle[c].postId] = TRUE]
                  /\ created' = [created EXCEPT ![cycle[c].postId] = post]
                  /\ cycle' = [cycle EXCEPT ![c].drafts = @ + 1, ![c].draftPut = "ok"]
                  /\ cpc' = [cpc EXCEPT ![c] = AfterDraftPut(TRUE)]
         ELSE /\ UNCHANGED << posts, expiring, created >>
              /\ cycle' = [cycle EXCEPT ![c].draftPut = "failed"]
              /\ cpc' = [cpc EXCEPT ![c] = AfterDraftPut(FALSE)]
  /\ UNCHANGED << callVars, env, snapshot, nextId, confirmVars, cyclesStarted >>

\* sendTelegramMessage without the catch of line 611: the last error of
\* withRetry reaches the caller
sendTelegramMessage_Rethrow(outs) ==
  [delivered |-> withRetry(outs, MaxAttemptsShort).ok,
   threw     |-> ~withRetry(outs, MaxAttemptsShort).ok]

\* lines 579-614: the message is delivered when an attempt resolves; when
\* every attempt fails the error is logged and swallowed
sendTelegramMessage(outs) ==
  [delivered |-> withRetry(outs, MaxAttemptsShort).ok, threw |-> FALSE]

\* lines 246-248: the confirmation message.  An error thrown at line 248
\* would reach the catch of line 255.
CycleNotify(c) ==
  /\ cpc[c] = "notify"
  /\ \E outs \in Outcomes(MaxAttemptsShort) :
       LET sent == sendTelegramMessage(outs)
       IN  /\ cycle' = [cycle EXCEPT
                          ![c].notes = @ \cup {"confirmation"},
                          ![c].delivered = IF sent.delivered THEN "yes" ELSE "no"]
           /\ cpc' = [cpc EXCEPT ![c] = IF sent.threw THEN "catch" ELSE "storeSnapshot"]
  /\ UNCHANGED << callVars, env, kvVars, nextId, confirmVars, created, cyclesStarted >>

\* line 253: store the current markdown as the snapshot
CycleStoreSnapshot(c) ==
  /\ cpc[c] = "storeSnapshot"
  /\ \E ok \in BOOLEAN :
       IF ok
         THEN /\ snapshot' = Some(cycle[c].markdownContent)
              /\ CycleEnd(c)
         ELSE /\ snapshot' = snapshot
              /\ cycle' = [cycle EXCEPT ![c].snapPut = "failed"]
              /\ cpc' = [cpc EXCEPT ![c] = "catch"]
  /\ UNCHANGED << callVars, env, posts, expiring, nextId, confirmVars, created, cyclesStarted >>

\* lines 255-259: the catch of the whole cycle reports the error
CycleCatch(c) ==
  /\ cpc[c] = "catch"
  /\ CycleEnd(c)
  /\ UNCHANGED << callVars, env, kvVars, nextId, confirmVars, created, cyclesStarted >>

\* the 24 hours of a pending post's expirationTtl pass
Expire(id) ==
  /\ posts[id] # NoPost
  /\ expiring[id]
  /\ posts' = [posts EXCEPT ![id] = NoPost]
  /\ expiring' = [expiring EXCEPT ![id] = FALSE]
  /\ UNCHANGED << callVars, env, snapshot, nextId, cycleVars, confirmVars, created >>

(* ----------------------- POST /confirm/:postID -------------------------- *)
\* lines 309-341: GET /confirm/<id> serves the confirmation page, whose form
\* posts to the same URL.  Nothing is read or written.
ConfirmPage(id) ==
  /\ confirmsStarted < MaxConfirms
  /\ confirmsStarted' = confirmsStarted + 1
  /\ served' = id
  /\ UNCHANGED << callVars, env, kvVars, nextId, cycleVars, created,
                  hpc, handler, published, pubCalls, confirmLog, overlap >>

\* ConfirmBranch without the check of line 363: a post that failed to post
\* is published again
ConfirmBranch_NoPendingCheck(storedData) ==
  IF storedData = NoPost THEN "NotFound"
  ELSE IF storedData.status = "POSTED_TO_X" THEN "AlreadyPublished"
  ELSE "publish"

\* ConfirmBranch without the check of line 349: an absent post is published
ConfirmBranch_NoNullCheck(storedData) ==
  IF storedData # NoPost /\ storedData.status = "POSTED_TO_X" THEN "AlreadyPublished"
  ELSE IF storedData # NoPost /\ storedData.status # "PENDING_CONFIRMATION" THEN "NotPending"
  ELSE "publish"

\* ConfirmBranch without the check of line 357: a posted post is not pending
ConfirmBranch_NoPostedCheck(storedData) ==
  IF storedData = NoPost THEN "NotFound"
  ELSE IF storedData.status # "PENDING_CONFIRMATION" THEN "NotPending"
  ELSE "publish"

\* lines 349-367: what the task does with the value it read
ConfirmBranch(storedData) ==
  IF storedData = NoPost THEN "NotFound"
  ELSE IF storedData.status = "POSTED_TO_X" THEN "AlreadyPublished"
  ELSE IF storedData.status # "PENDING_CONFIRMATION" THEN "NotPending"
  ELSE "publish"

\* lines 343-367: a POST for post id arrives; its task runs in the
\* background (ctx.waitUntil), reads the post and takes the branch.  The
\* step is taken when the read has settled.
ConfirmStart(h, id) ==
  /\ hpc[h] = "idle"
  /\ confirmsStarted < MaxConfirms
  /\ confirmsStarted' = confirmsStarted + 1
  /\ overlap' = [overlap EXCEPT ![id] =
                   @ \/ \E g \in Handlers \ {h} :
                          hpc[g] # "idle" /\ handler[g].postID = id]
  /\ LET storedData == posts[id]
         branch     == ConfirmBranch(storedData)
     IN  /\ handler' = [handler EXCEPT ![h] =
                          [HandlerLocals EXCEPT
                             !.postID = id, !.loaded = storedData,
                             !.pendingPost = storedData,
                             !.outcome = IF branch = "publish" THEN "none" ELSE branch]]
         /\ hpc' = [hpc EXCEPT ![h] = IF branch = "publish" THEN "postToX" ELSE "notify"]
  /\ UNCHANGED << callVars, env, kvVars, nextId, cycleVars, created, served,
                  published, pubCalls, confirmLog >>

\* lines 617-707: postToX never throws; it succeeds when an attempt of the
\* request resolves and the response holds data.id
postToX(outs, hasId) == [success |-> withRetry(outs, MaxAttemptsShort).ok /\ hasId]

\* SetStatus building the record anew from the status alone
SetStatus_DropsRecap(pendingPost, success) ==
  [pendingPost EXCEPT !.recap = "",
                      !.status = IF success THEN "POSTED_TO_X" ELSE "FAILED_TO_POST"]

\* lines 372 and 376: pendingPost.status is assigned, the other fields of the
\* parsed record stay
SetStatus(pendingPost, success) ==
  [pendingPost EXCEPT !.status = IF success THEN "POSTED_TO_X" ELSE "FAILED_TO_POST"]

\* lines 370-372 and 376: call postToX with the recap that was read, then
\* set the status
ConfirmPostToX(h) ==
  /\ hpc[h] = "postToX"
  /\ \E outs \in Outcomes(MaxAttemptsShort) :
     \E hasId \in IF withRetry(outs, MaxAttemptsShort).ok THEN BOOLEAN ELSE {FALSE} :
       LET id     == handler[h].postID
           result == postToX(outs, hasId)
       IN  /\ published' = published \cup
                 { [postID |-> id, text |-> handler[h].pendingPost.recap, by |-> h,
                    status |-> handler[h].pendingPost.status] }
           /\ pubCalls' = [pubCalls EXCEPT ![id] = @ + 1]
           /\ handler' = [handler EXCEPT
                 ![h].success = result.success,
                 ![h].publisherCalls = @ + 1,
                 ![h].pendingPost = SetStatus(@, result.success)]
           /\ hpc' = [hpc EXCEPT ![h] = "put"]
  /\ UNCHANGED << callVars, env, kvVars, nextId, cycleVars, created, served,
                  confirmLog, overlap, confirmsStarted >>

\* lines 373 and 377: put the post back, without expirationTtl.  A put that
\* rejects is caught at line 381.
ConfirmPut(h) ==
  /\ hpc[h] = "put"
  /\ \E ok \in BOOLEAN :
       LET id == handler[h].postID
       IN  IF ok
             THEN /\ posts' = [posts EXCEPT ![id] = handler[h].pendingPost]
                  /\ expiring' = [expiring EXCEPT ![id] = FALSE]
                  /\ handler' = [handler EXCEPT
                        ![h].writes = @ + 1,
                        ![h].outcome = IF handler[h].success THEN "Published"
                                                             ELSE "PublishFailed"]
             ELSE /\ UNCHANGED << posts, expiring >>
                  /\ handler' = [handler EXCEPT ![h].outcome = "Error"]
  /\ hpc' = [hpc EXCEPT ![h] = "notify"]
  /\ UNCHANGED << callVars, env, snapshot, nextId, cycleVars, created, served,
                  published, pubCalls, confirmLog, overlap, confirmsStarted >>

\* lines 351, 359, 365, 374, 379, 384: report the outcome; the task ends.
\* An error thrown at line 374 or 379 would be caught at line 381 and reported
\* as an error instead.
ConfirmNotify(h) ==
  /\ hpc[h] = "notify"
  /\ \E outs \in Outcomes(MaxAttemptsShort) :
       LET sent == sendTelegramMessage(outs)
           said == IF sent.threw /\ handler[h].outcome \in {"Published", "PublishFailed"}
                     THEN "Error" ELSE handler[h].outcome
       IN  confirmLog' = [confirmLog EXCEPT ![handler[h].postID] = Append(@, said)]
  /\ handler' = [handler EXCEPT ![h] = HandlerLocals]
  /\ hpc' = [hpc EXCEPT ![h] = "idle"]
  /\ UNCHANGED << callVars, env, kvVars, nextId, cycleVars, created, served,
                  published, pubCalls, overlap, confirmsStarted >>

(* ---------------------------- specification ---------------------------- *)
Next ==
  \/ \E c \in Cycles : CycleStart(c)
  \/ \E c \in Cycles : CycleEnvError(c)
  \/ \E c \in Cycles : CycleGet(c)
  \/ \E c \in Cycles : CycleStoreFirst(c)
  \/ \E c \in Cycles : CycleGemini(c)
  \/ \E c \in Cycles : CyclePutDraft(c)
  \/ \E c \in Cycles : CycleNotify(c)
  \/ \E c \in Cycles : CycleStoreSnapshot(c)
  \/ \E c \in Cycles : CycleCatch(c)
  \/ \E id \in PostIds : Expire(id)
  \/ \E id \in PostIds : ConfirmPage(id)
  \/ \E h \in Handlers, id \in PostIds : ConfirmStart(h, id)
  \/ \E h \in Handlers : ConfirmPostToX(h)
  \/ \E h \in Handlers : ConfirmPut(h)
  \/ \E h \in Handlers : ConfirmNotify(h)

Spec == Init /\ [][Next]_vars

(* ------------------- the worker with a stored snapshot ------------------ *)
\* an earlier invocation has stored the snapshot, the environment is valid
SteadyInit ==
  /\ env = FullEnv
  /\ snapshot = Some(TextA)
  /\ posts = [i \in PostIds |-> NoPost]
  /\ expiring = [i \in PostIds |-> FALSE]
  /\ nextId = 1
  /\ cpc = [c \in Cycles |-> "idle"]
  /\ cycle = [c \in Cycles |-> CycleLocals]
  /\ hpc = [h \in Handlers |-> "idle"]
  /\ handler = [h \in Handlers |-> HandlerLocals]
  /\ published = {}
  /\ pubCalls = [i \in PostIds |-> 0]
  /\ confirmLog = [i \in PostIds |-> << >>]
  /\ overlap = [i \in PostIds |-> FALSE]
  /\ created = [i \in PostIds |-> NoPost]
  /\ cyclesStarted = 0
  /\ confirmsStarted = 0
  /\ served = 0
  /\ retry = NoRetry
  /\ compare = NoCompare
  /\ tweet = NoTweet

\* the invocations of handleScheduled may overlap; the confirmation POSTs
\* arrive one after the other
SteadyNext ==
  \/ \E c \in Cycles : CycleStart(c)
  \/ \E c \in Cycles : CycleGet(c)
  \/ \E c \in Cycles : CycleGemini(c)
  \/ \E c \in Cycles : CyclePutDraft(c)
  \/ \E c \in Cycles : CycleNotify(c)
  \/ \E c \in Cycles : CycleStoreSnapshot(c)
  \/ \E c \in Cycles : CycleCatch(c)
  \/ \E id \in PostIds : Expire(id)
  \/ \E id \in PostIds : ConfirmStart("h1", id)
  \/ ConfirmPostToX("h1")
  \/ ConfirmPut("h1")
  \/ ConfirmNotify("h1")

SteadySpec == SteadyInit /\ [][SteadyNext]_vars

(* ------------------------- withRetry on its own ------------------------ *)
\* the operations handed to withRetry, by their operationName
\* and, under the default operationName of line 110, a call that is given
\* more attempts
RetryOperations ==
  { "Fetch changelog", "Gemini API call", "Telegram message send", "X/Twitter post",
    "operation" }

\* config.maxAttempts of each: RETRY_CONFIG, or { ...RETRY_CONFIG, maxAttempts: n }
ConfigOf(operationName) ==
  IF operationName \in { "Fetch changelog", "Gemini API call" } THEN MaxAttempts
  ELSE IF operationName = "operation" THEN MaxAttemptsLong
  ELSE MaxAttemptsShort

\* whether fn() resolves at its k-th call, for every call that could be made
RetryOuts == [1..(MaxAttemptsLong + 1) -> BOOLEAN]

\* Delay without Math.min: the delay keeps doubling
Delay_Uncapped(attempt) == InitialDelay * BackoffMultiplier ^ (attempt - 1)

Min(a, b) == IF a <= b THEN a ELSE b

\* lines 122-125: the delay after the failure of attempt
Delay(attempt) == Min(InitialDelay * BackoffMultiplier ^ (attempt - 1), MaxDelay)

\* LoopRuns running the loop once more than config.maxAttempts
LoopRuns_OneMore(attempt, maxAttempts) == attempt <= maxAttempts + 1

\* line 114: the condition of the for loop
LoopRuns(attempt, maxAttempts) == attempt <= maxAttempts

RetryInit ==
  /\ WorkerInit
  /\ compare = NoCompare
  /\ tweet = NoTweet
  /\ retry \in { [ operationName |-> op, maxAttempts |-> ConfigOf(op), outs |-> o,
                    attempt |-> 1, pc |-> "call", calls |-> 0, delays |-> << >>,
                    lastError |-> 0, result |-> 0 ] :
                  op \in RetryOperations, o \in RetryOuts }

\* lines 114 and 132: attempt++ and the test of the loop; after the loop the
\* last error is thrown
RetryAdvance(r) ==
  [r EXCEPT !.attempt = @ + 1,
            !.pc = IF LoopRuns(r.attempt + 1, r.maxAttempts) THEN "call" ELSE "thrown"]

\* lines 115-128: one attempt.  return await fn() leaves the loop; a failure
\* is kept as lastError and, unless this was the last attempt, a delay follows
RetryCall ==
  /\ retry.pc = "call"
  /\ LET a == retry.attempt
         r == [retry EXCEPT !.calls = @ + 1]
     IN  retry' =
           IF retry.outs[a]
             THEN [r EXCEPT !.result = a, !.pc = "returned"]
             ELSE IF a < retry.maxAttempts
               THEN [r EXCEPT !.lastError = a, !.pc = "delay",
                              !.delays = Append(@, Delay(a))]
               ELSE RetryAdvance([r EXCEPT !.lastError = a])
  /\ UNCHANGED << workerVars, compare, tweet >>

\* line 127: the delay has passed
RetryDelay ==
  /\ retry.pc = "delay"
  /\ retry' = RetryAdvance(retry)
  /\ UNCHANGED << workerVars, compare, tweet >>

RetryNext == RetryCall \/ RetryDelay

\* every attempt and every delay ends: the loop is not held up forever
RetrySpec == RetryInit /\ [][RetryNext]_vars /\ WF_vars(RetryNext)

(* ----------------------- calculateDiff on its own ----------------------- *)
\* the lines texts are made of
Lines == { "a", "b" }

\* the texts of exactly n lines: every line but the last ends with "\n"
TextsOfLen(n) ==
  { t \in [1..n -> Lines \X BOOLEAN] : \A k \in 1..(n - 1) : t[k][2] }

\* every text of at most MaxLines lines, the empty text included
Texts == UNION { TextsOfLen(n) : n \in 0..MaxLines }

DiffInit ==
  /\ WorkerInit
  /\ retry = NoRetry
  /\ tweet = NoTweet
  /\ compare \in { [oldText |-> a, newText |-> b, pc |-> "call", result |-> << >>] :
                      a \in Texts \cup Contents, b \in Texts \cup Contents }

\* line 225: diff = calculateDiff(previousMarkdown, markdownContent)
Compare ==
  /\ compare.pc = "call"
  /\ compare' = [compare EXCEPT
                   !.result = calculateDiff(compare.oldText, compare.newText),
                   !.pc = "done"]
  /\ UNCHANGED << workerVars, retry, tweet >>

DiffNext == Compare

DiffSpec == DiffInit /\ [][DiffNext]_vars

(* ---------------------- the text postToX sends ------------------------- *)
\* A string is the sequence of its UTF-16 code units, which is what .length
\* counts and substring cuts.  The recaps followed here are told apart by
\* their length and by the letters they are filled with; the unit at place k
\* also depends on k, so that a prefix is told from any other cut.
RecapFills == { 65, 97 }
RecapOf(n, fill) == [k \in 1..n |-> fill + (k % 7)]

\* '...': three times the code unit of "."
Ellipsis == << 46, 46, 46 >>

\* line 625
MAX_TWEET_LENGTH == 280

\* TweetText cutting at MAX_TWEET_LENGTH and then appending the dots
TweetText_NoRoomForDots(recap) ==
  IF Len(recap) > MAX_TWEET_LENGTH
    THEN SubSeq(recap, 1, MAX_TWEET_LENGTH) \o Ellipsis
    ELSE recap

\* lines 624-630: tweetText, the text of the request's body
TweetText(recap) ==
  IF Len(recap) > MAX_TWEET_LENGTH
    THEN SubSeq(recap, 1, MAX_TWEET_LENGTH - 3) \o Ellipsis
    ELSE recap

TweetInit ==
  /\ WorkerInit
  /\ retry = NoRetry
  /\ compare = NoCompare
  /\ tweet \in { [recap |-> RecapOf(n, f), pc |-> "call", tweetText |-> << >>] :
                    n \in 0..MaxRecapLength, f \in RecapFills }

\* lines 624-632: postToX computes the text it is going to send
Truncate ==
  /\ tweet.pc = "call"
  /\ tweet' = [tweet EXCEPT !.tweetText = TweetText(tweet.recap), !.pc = "done"]
  /\ UNCHANGED << workerVars, retry, compare >>

TweetNext == Truncate

TweetSpec == TweetInit /\ [][TweetNext]_vars

(* ------------------------------ the claims ----------------------------- *)
Active(h) == hpc[h] # "idle"

\* C1: for a pending draft, confirmations that run concurrently invoke the
\* Publisher (postToX) exactly once in total: no post id ever has a second
\* call of postToX.
C1_PublisherOncePerDraft ==
  \A id \in PostIds : pubCalls[id] <= 1

\* the first completed confirmation of id that called postToX, or 0
FirstPublishing(id) ==
  LET log == confirmLog[id]
      idx == { k \in 1..Len(log) : log[k] \in {"Published", "PublishFailed", "Error"} }
  IN  IF idx = {} THEN 0 ELSE CHOOSE k \in idx : \A m \in idx : k <= m

\* C2: when the confirmations of a draft never overlap and a second one has
\* completed after the first that found the draft pending, the first moved the
\* draft to POSTED_TO_X or FAILED_TO_POST, the second ended as AlreadyPublished
\* or NotPending, and postToX was called exactly once for the draft.
C2_SequentialConfirms ==
  \A id \in PostIds :
    LET k == FirstPublishing(id)
    IN  (~overlap[id] /\ k # 0 /\ Len(confirmLog[id]) > k)
          => /\ confirmLog[id][k] \in {"Published", "PublishFailed"}
             /\ confirmLog[id][k + 1] \in {"AlreadyPublished", "NotPending"}
             /\ pubCalls[id] = 1

\* C3: no transition out of PUBLISHED: once the stored status of a post is
\* POSTED_TO_X, no step changes it.
C3_NoTransitionOutOfPublished ==
  [][\A id \in PostIds :
       posts[id].status = "POSTED_TO_X" => posts'[id].status = "POSTED_TO_X"]_vars

\* C4: failures are terminal: a confirmation that read FAILED_TO_POST ends as
\* NotPending without calling postToX, and a post whose stored status is
\* FAILED_TO_POST never becomes POSTED_TO_X.
C4_NoRetryAfterFailure ==
  /\ [](\A h \in Handlers :
          (Active(h) /\ handler[h].loaded.status = "FAILED_TO_POST")
            => /\ handler[h].outcome = "NotPending"
               /\ handler[h].publisherCalls = 0)
  /\ [][\A id \in PostIds :
          posts[id].status = "FAILED_TO_POST" => posts'[id].status # "POSTED_TO_X"]_vars

\* C5: publishing is gated by confirmation: every call of postToX was made
\* by a confirmation task that had read the post with status
\* PENDING_CONFIRMATION, and was handed the recap the post was created with;
\* no step of handleScheduled calls postToX.
C5_PublisherGated ==
  /\ [](\A p \in published :
          /\ p.by \in Handlers
          /\ p.status = "PENDING_CONFIRMATION"
          /\ created[p.postID] # NoPost
          /\ p.text = created[p.postID].recap)
  /\ [][published' # published
          => /\ UNCHANGED << cpc, cycle >>
             /\ \E h \in Handlers :
                  /\ hpc[h] = "postToX" /\ hpc'[h] = "put"
                  /\ handler[h].loaded.status = "PENDING_CONFIRMATION"
                  /\ handler[h].loaded = created[handler[h].postID]]_vars

C5_Witness ==
  \E p \in published : p.postID \in PostIds /\ p.text \in Recaps

\* C6: a confirmation that finds no record for its id ends as NotFound: it
\* has called postToX zero times and put nothing, and only its report is left.
C6_NotFound ==
  \A h \in Handlers :
    (Active(h) /\ handler[h].loaded = NoPost)
      => /\ hpc[h] = "notify"
         /\ handler[h].outcome = "NotFound"
         /\ handler[h].publisherCalls = 0
         /\ handler[h].writes = 0

\* an expired post is confirmed
C6_Witness ==
  \E h \in Handlers :
    /\ hpc[h] = "notify" /\ handler[h].outcome = "NotFound"
    /\ created[handler[h].postID] # NoPost
    /\ posts[handler[h].postID] = NoPost

\* C7: a confirmation that reads a post with status POSTED_TO_X ends as
\* AlreadyPublished: it calls postToX zero times and puts nothing, however
\* often it is repeated.
C7_AlreadyPublishedNoOp ==
  \A h \in Handlers :
    (Active(h) /\ handler[h].loaded.status = "POSTED_TO_X")
      => /\ hpc[h] = "notify"
         /\ handler[h].outcome = "AlreadyPublished"
         /\ handler[h].publisherCalls = 0
         /\ handler[h].writes = 0
         /\ handler[h].pendingPost = handler[h].loaded

C7_Witness ==
  \E h \in Handlers :
    /\ hpc[h] = "notify" /\ handler[h].loaded.status = "POSTED_TO_X"
    /\ posts[handler[h].postID].status = "POSTED_TO_X"

\* C8: when a confirmation that called postToX is about to finish, the stored
\* status of its post is POSTED_TO_X if postToX succeeded and FAILED_TO_POST
\* if it failed; it is never still PENDING_CONFIRMATION.
C8_NoAmbiguousState ==
  \A h \in Handlers :
    (hpc[h] = "notify" /\ handler[h].publisherCalls > 0)
      => posts[handler[h].postID].status =
           IF handler[h].success THEN "POSTED_TO_X" ELSE "FAILED_TO_POST"

FirstRun(c) == cpc[c] # "idle" /\ cycle[c].branch = "first"

\* C9 as stated: a cycle that found no prior snapshot ends by storing the
\* fetched markdown as the snapshot, with no draft, no call of the summarizer
\* and no notification.
C9_FirstRunSilent ==
  [][\A c \in Cycles :
       (FirstRun(c) /\ cpc'[c] = "idle")
         => /\ cpc[c] = "storeFirst"
            /\ snapshot' = Some(cycle[c].markdownContent)
            /\ posts' = posts
            /\ cycle[c].geminiCalls = 0 /\ cycle[c].drafts = 0
            /\ cycle[c].notes = {}]_vars

\* C9, amended: a cycle that found no prior snapshot only puts the fetched
\* markdown as the snapshot: it calls no summarizer, creates no draft and sends
\* no confirmation.  When the put resolves the snapshot is that markdown and
\* the cycle ends with no notification; when the put rejects the snapshot is
\* left as it was and the cycle ends with the error notification of its catch.
C9_FirstRunStoresOnly ==
  /\ [](\A c \in Cycles :
          FirstRun(c)
            => /\ cpc[c] \in {"storeFirst", "catch"}
               /\ cycle[c].previousMarkdown = NULL
               /\ cycle[c].geminiCalls = 0 /\ cycle[c].drafts = 0
               /\ cycle[c].recap = NoRecap /\ cycle[c].notes = {}
               /\ cpc[c] = "catch" => cycle[c].snapPut = "failed")
  /\ [][\A c \in Cycles :
          (FirstRun(c) /\ cpc'[c] # cpc[c])
            => /\ posts' = posts /\ created' = created /\ nextId' = nextId
               /\ \/ /\ cpc[c] = "storeFirst" /\ cpc'[c] = "idle"
                     /\ snapshot' = Some(cycle[c].markdownContent)
                  \/ /\ cpc[c] = "storeFirst" /\ cpc'[c] = "catch"
                     /\ snapshot' = snapshot
                  \/ /\ cpc[c] = "catch" /\ cpc'[c] = "idle"
                     /\ snapshot' = snapshot]_vars

\* the first cycle has ended and stored its markdown
C9_Witness ==
  /\ cyclesStarted = 1 /\ \A c \in Cycles : cpc[c] = "idle"
  /\ snapshot \in { Some(t) : t \in Contents }
  /\ \A id \in PostIds : created[id] = NoPost

\* C10: a cycle whose diff reports a change leaves the snapshot equal to its
\* new markdown when it ends, whatever the summarizer returned, whether or not
\* the put of the draft resolved and whether or not the notification was
\* delivered.  (A cycle whose own put of the snapshot rejected is left out.)
C10_SnapshotAdvances ==
  [][\A c \in Cycles :
       ( /\ cpc[c] # "idle" /\ cpc'[c] = "idle"
         /\ cycle[c].branch = "changed"
         /\ cycle[c].snapPut # "failed" )
         => snapshot' = Some(cycle[c].markdownContent)]_vars

\* C12: a cycle whose markdown is identical to the stored snapshot does nothing
\* further: its step after the read ends it, with no diff kept, no summarizer
\* call, no notification, no draft and no key of the store written.
C12_IdenticalContentNoWork ==
  [][\A c \in Cycles :
       ( /\ cpc[c] = "get"
         /\ snapshot = Some(cycle[c].markdownContent)
         /\ cpc'[c] # cpc[c] )
         => /\ cpc'[c] = "idle"
            /\ cycle[c].geminiCalls = 0 /\ cycle[c].drafts = 0
            /\ cycle[c].notes = {} /\ cycle[c].diff = << >>
            /\ cycle'[c] = CycleLocals
            /\ UNCHANGED << snapshot, posts, expiring, created, nextId >>]_vars

\* a later cycle has fetched exactly what an earlier one stored and is about
\* to compare
C12_Witness ==
  \E c \in Cycles :
    /\ cpc[c] = "get" /\ cyclesStarted = 2
    /\ snapshot = Some(cycle[c].markdownContent)
    /\ \A d \in Cycles \ {c} : cpc[d] = "idle"

\* the fetch of invocation c failed on every attempt
FetchFailed(c) == cpc[c] \notin {"idle", "envError"} /\ ~cycle[c].fetched

\* C13: a cycle whose fetch failed on every attempt is aborted: it holds no
\* content, has called no summarizer and created no draft, and its only step is
\* the catch of line 255, which reports the error and returns, leaving the
\* snapshot and every post as they were.
C13_FetchFailureAborts ==
  /\ [](\A c \in Cycles :
          FetchFailed(c)
            => /\ cpc[c] = "catch"
               /\ cycle[c].markdownContent = << >>
               /\ cycle[c].geminiCalls = 0 /\ cycle[c].drafts = 0
               /\ cycle[c].snapPut = "none" /\ cycle[c].draftPut = "none")
  /\ [][\A c \in Cycles :
          (FetchFailed(c) /\ cpc'[c] # cpc[c])
            => /\ cpc'[c] = "idle"
               /\ UNCHANGED << snapshot, posts, expiring, created, nextId >>]_vars

\* with a snapshot stored, a later cycle's fetch has failed
C13_Witness ==
  \E c \in Cycles :
    /\ FetchFailed(c) /\ cpc[c] = "catch"
    /\ snapshot # NULL

\* the summarizer of invocation c has returned null or the empty string
NoSummary(c) ==
  /\ cpc[c] # "idle" /\ cycle[c].geminiCalls > 0
  /\ cycle[c].recap \in {"", NoRecap}

\* C14: a draft is stored only by a cycle whose summarizer call has returned
\* a non-empty recap.  A cycle whose summarizer returned null (or failed, or
\* returned nothing) draws no post id, stores no draft, sends no confirmation
\* and raises no error: it goes on to the put of line 253, and reaches the
\* catch only if that put itself is rejected.
C14_DraftOnlyAfterSummary ==
  /\ [](\A id \in PostIds : created[id] # NoPost => created[id].recap \in Recaps)
  /\ [](\A c \in Cycles :
          NoSummary(c)
            => /\ cycle[c].postId = 0 /\ cycle[c].drafts = 0
               /\ cycle[c].draftPut = "none" /\ cycle[c].notes = {}
               /\ cpc[c] \in {"storeSnapshot", "catch"}
               /\ cpc[c] = "catch" => cycle[c].snapPut = "failed")
  /\ [][\A c \in Cycles :
          /\ (NoSummary(c) /\ cpc'[c] # cpc[c])
               => UNCHANGED << posts, expiring, created, nextId >>
          /\ (cpc[c] = "gemini" /\ cpc'[c] = "putDraft")
               => cycle'[c].recap \in Recaps
          /\ (cpc[c] = "gemini" /\ cpc'[c] # cpc[c] /\ cpc'[c] # "putDraft")
               => /\ NoSummary(c)' /\ cpc'[c] = "storeSnapshot"
                  /\ UNCHANGED << posts, expiring, created, nextId >>
          /\ (\E id \in PostIds : created'[id] # created[id] /\ cpc'[c] # cpc[c])
               => /\ cpc[c] = "putDraft" /\ cycle[c].geminiCalls = 1
                  /\ cycle[c].recap \in Recaps]_vars

\* the summarizer has returned nothing for a detected change
C14_Witness ==
  \E c \in Cycles :
    /\ NoSummary(c) /\ cpc[c] = "storeSnapshot"
    /\ cycle[c].branch = "changed"

\* C15 as stated: after a cycle that detected a change and got no summary, a
\* later cycle that fetches the same content detects the change again; so the
\* cycle without a summary does not end with the snapshot holding its content.
C15_SummarizerFailureRetried ==
  [][\A c \in Cycles :
       ( /\ NoSummary(c) /\ cycle[c].branch = "changed"
         /\ cpc[c] # "idle" /\ cpc'[c] = "idle" )
         => snapshot' # Some(cycle[c].markdownContent)]_vars

\* C15, amended: a cycle that detected a change and got no summary goes on to
\* put its content as the snapshot.  When the put resolves the snapshot is that
\* content, and a cycle that then reads a snapshot equal to what it fetched
\* ends at once, without a summarizer call: the change is not summarized
\* again.  Only when the put is rejected does the snapshot stay as it was.
C15_SummarizerFailureAdvances ==
  [][\A c \in Cycles :
       /\ (cpc[c] = "gemini" /\ cpc'[c] # cpc[c] /\ ~HasRecap(cycle'[c].recap))
            => cpc'[c] = "storeSnapshot" /\ snapshot' = snapshot
       /\ (NoSummary(c) /\ cycle[c].branch = "changed" /\ cpc'[c] # cpc[c])
            => \/ /\ cpc[c] = "storeSnapshot" /\ cpc'[c] = "idle"
                  /\ snapshot' = Some(cycle[c].markdownContent)
               \/ /\ cpc[c] = "storeSnapshot" /\ cpc'[c] = "catch"
                  /\ snapshot' = snapshot
               \/ /\ cpc[c] = "catch" /\ cpc'[c] = "idle"
                  /\ cycle[c].snapPut = "failed" /\ snapshot' = snapshot
       /\ (cpc[c] = "get" /\ snapshot = Some(cycle[c].markdownContent)
             /\ cpc'[c] # cpc[c])
            => cpc'[c] = "idle" /\ cycle[c].geminiCalls = 0]_vars

\* every attempt of the summarizer has failed for a change against the stored
\* snapshot, and the put of line 253 is next
C15_Witness ==
  \E c \in Cycles :
    /\ cpc[c] = "storeSnapshot" /\ cycle[c].branch = "changed"
    /\ cycle[c].geminiCalls = 1 /\ cycle[c].recap = NoRecap
    /\ cycle[c].previousMarkdown = snapshot
    /\ snapshot # Some(cycle[c].markdownContent)

\* C16: a notification that cannot be delivered is not fatal.  Whether or not
\* the confirmation message is delivered, the cycle goes on to the put of line
\* 253 with every stored post, the new draft included, left as it was, and
\* from there ends with the snapshot equal to its content unless that put is
\* rejected.  The report of a confirmation changes no stored post either.
C16_NotifierNeverFatal ==
  [][/\ \A c \in Cycles :
         /\ (cpc[c] = "notify" /\ cpc'[c] # cpc[c])
              => /\ cpc'[c] = "storeSnapshot"
                 /\ UNCHANGED << snapshot, posts, expiring, created >>
         /\ (cycle[c].delivered = "no" /\ cpc'[c] # cpc[c])
              => \/ /\ cpc[c] = "storeSnapshot" /\ cpc'[c] = "idle"
                    /\ snapshot' = Some(cycle[c].markdownContent)
                    /\ posts' = posts
                 \/ /\ cpc[c] = "storeSnapshot" /\ cpc'[c] = "catch"
                    /\ cycle'[c].snapPut = "failed" /\ posts' = posts
                 \/ /\ cpc[c] = "catch" /\ cpc'[c] = "idle"
                    /\ cycle[c].snapPut = "failed" /\ posts' = posts
     /\ \A h \in Handlers :
         (hpc[h] = "notify" /\ hpc'[h] # hpc[h])
           => /\ hpc'[h] = "idle"
              /\ UNCHANGED << snapshot, posts, expiring >>]_vars

\* the confirmation message of a stored draft could not be delivered and the
\* draft is still pending
C16_Witness ==
  \E c \in Cycles :
    /\ cpc[c] = "storeSnapshot" /\ cycle[c].delivered = "no"
    /\ cycle[c].draftPut = "ok"
    /\ posts[cycle[c].postId].status = "PENDING_CONFIRMATION"

RetryEnded == retry.pc \in {"returned", "thrown"}

\* C17: withRetry calls the operation at most maxAttempts times (3 for the
\* fetch and the summarizer, 2 for a notification and for the post to X); it
\* returns at the first call that resolves and makes no call after it; after
\* maxAttempts failures in a row it stops and throws the last error; every
\* delay is at most maxDelay; and when every attempt ends, so does withRetry.
C17_BoundedRetry ==
  /\ [](/\ retry.calls <= retry.maxAttempts
        /\ retry.operationName \in {"Fetch changelog", "Gemini API call"}
             => retry.calls <= 3
        /\ retry.operationName \in {"Telegram message send", "X/Twitter post"}
             => retry.calls <= 2
        /\ \A k \in 1..Len(retry.delays) : retry.delays[k] <= MaxDelay
        /\ retry.pc = "returned"
             => /\ retry.outs[retry.result] /\ retry.calls = retry.result
                /\ \A k \in 1..(retry.result - 1) : ~retry.outs[k]
        /\ retry.pc = "thrown"
             => /\ retry.calls = retry.maxAttempts
                /\ retry.lastError = retry.maxAttempts
                /\ \A k \in 1..retry.maxAttempts : ~retry.outs[k]
        /\ RetryEnded
             => withRetry(retry.outs, retry.maxAttempts) =
                  [ok |-> retry.pc = "returned", attempts |-> retry.calls])
  /\ [][RetryEnded => retry' = retry]_vars
  /\ <>RetryEnded

\* the fetch has failed three times and withRetry has thrown
C17_Witness ==
  /\ retry.operationName = "Fetch changelog"
  /\ retry.pc = "thrown" /\ retry.calls = 3
  /\ retry.delays = << 1000, 2000 >>

\* C18: a draft that has expired stays absent: once the record of a created
\* post is gone from the store, no step stores a record under its id again,
\* not even the put of a confirmation that had read the post before it
\* expired.
C18_ExpiredStaysAbsent ==
  [][\A id \in PostIds :
       (created[id] # NoPost /\ posts[id] = NoPost) => posts'[id] = NoPost]_vars

\* C19: the store is written conditionally.  A cycle puts the snapshot only
\* while the snapshot still is what the cycle read, and a confirmation puts a
\* post only while the stored post still is the pending one it read.
C19_ConditionalWrites ==
  [][/\ \A c \in Cycles :
         (cpc[c] \in {"storeFirst", "storeSnapshot"} /\ cpc'[c] # cpc[c]
           /\ snapshot' # snapshot)
           => snapshot = cycle[c].previousMarkdown
     /\ \A h \in Handlers :
         (hpc[h] = "put" /\ hpc'[h] # hpc[h]
           /\ posts'[handler[h].postID] # posts[handler[h].postID])
           => posts[handler[h].postID] = handler[h].loaded]_vars

\* diffLines compares line tokens exactly: two different texts always have an
\* added or a removed part, so calculateDiff returns the sentinel only for
\* equal texts
DifferentTextsChange ==
  (compare.pc = "done" /\ compare.oldText # compare.newText)
    => compare.result # NoDiff

\* hence no invocation of handleScheduled takes the branch of line 229
UnchangedBranchNotTaken ==
  \A c \in Cycles : cycle[c].branch # "unchanged"

\* C20: for every text A, the empty text included, calculateDiff(A, A) is the
\* sentinel "No textual differences found." and not a rendered diff.
C20_SameTextUnchanged ==
  (compare.pc = "done" /\ compare.oldText = compare.newText)
    => compare.result = NoDiff

\* the empty text was compared with itself
C20_Witness ==
  /\ compare.pc = "done"
  /\ compare.oldText = << >> /\ compare.newText = << >>
  /\ compare.result = NoDiff

\* C21: for all texts A and B that differ, calculateDiff(A, B) is not the
\* sentinel but a non-empty rendered diff with at least one line marked "+" or
\* "-"; from "Line1\nLine2" to "Line1\nLine2\nLine3" the diff marks Line3 as
\* added.
C21_DifferentTextsChanged ==
  (compare.pc = "done" /\ compare.oldText # compare.newText)
    => /\ compare.result # NoDiff
       /\ compare.result # << >>
       /\ \E k \in 1..Len(compare.result) : compare.result[k][1] \in {"+", "-"}
       /\ (compare.oldText = TextA /\ compare.newText = TextB)
            => \E k \in 1..Len(compare.result) : compare.result[k] = <<"+", "Line3">>

\* "Line1\nLine2" has been compared with "Line1\nLine2\nLine3"
C21_Witness ==
  /\ compare.pc = "done"
  /\ compare.oldText = TextA /\ compare.newText = TextB
  /\ \E k \in 1..Len(compare.result) : compare.result[k] = <<"+", "Line3">>

\* the Env misses a required secret or has a setting that is no number or
\* out of range
EnvRejected ==
  \/ env.missing # {}
  \/ env.GEMINI_TEMPERATURE \in {"abc", "1.5", "-0.1"}
  \/ env.GEMINI_MAX_TOKENS \in {"abc", "0"}

\* C22: with a required secret missing, or GEMINI_TEMPERATURE or
\* GEMINI_MAX_TOKENS set to an invalid value, a cycle ends before its fetch: it
\* only reports the error; it fetches nothing, reads and writes no key, calls
\* no summarizer and creates no draft.
C22_EnvGatesCycle ==
  /\ [](EnvRejected
         => \A c \in Cycles :
              /\ cpc[c] \in {"idle", "envError"}
              /\ cycle[c] = CycleLocals
              /\ ~cycle[c].fetched /\ cycle[c].geminiCalls = 0 /\ cycle[c].drafts = 0)
  /\ [][EnvRejected => UNCHANGED << snapshot, posts, expiring, created, nextId >>]_vars

\* a cycle was started with GEMINI_TEMPERATURE = "1.5" and is reporting it
C22_Witness ==
  \E c \in Cycles : cpc[c] = "envError" /\ env.GEMINI_TEMPERATURE = "1.5"

\* C23: a GET request to /confirm/<id> for a post with status
\* PENDING_CONFIRMATION calls postToX and moves the post to POSTED_TO_X or
\* FAILED_TO_POST.
C23_GetConfirmsAndPosts ==
  [][\A id \in PostIds :
       ( /\ confirmsStarted' = confirmsStarted + 1 /\ hpc' = hpc /\ served' = id
         /\ posts[id].status = "PENDING_CONFIRMATION" )
         => \/ pubCalls'[id] = pubCalls[id] + 1
            \/ posts'[id].status \in {"POSTED_TO_X", "FAILED_TO_POST"}
            \/ \E h \in Handlers : hpc'[h] # "idle" /\ handler'[h].postID = id]_vars

\* the invocation's put of line 244 resolves
DraftWritten(c) == cpc[c] = "putDraft" /\ cpc'[c] = "notify"

\* C24: when a cycle's put of a draft resolves, the record written is
\* PENDING_CONFIRMATION and carries the 24 hour expirationTtl; its post id
\* was never the id of a draft before (no record is or ever was stored under
\* it, no other invocation holds it), and the record of every other post id
\* is left as it was.
C24_DraftCreatedFresh ==
  [][\A c \in Cycles :
       DraftWritten(c) =>
         LET id == cycle[c].postId
         IN  /\ id \in PostIds
             /\ posts[id] = NoPost /\ created[id] = NoPost
             /\ \A d \in Cycles \ {c} : cycle[d].postId # id
             /\ posts'[id].status = "PENDING_CONFIRMATION"
             /\ expiring'[id]
             /\ \A j \in PostIds \ {id} :
                   posts'[j] = posts[j] /\ expiring'[j] = expiring[j]]_vars

\* a second draft has been created while the first one was stored or decided
C24_Witness ==
  /\ created[1] # NoPost /\ created[2] # NoPost
  /\ posts[1] # NoPost
  /\ posts[2].status = "PENDING_CONFIRMATION" /\ expiring[2]

\* C25: the k-th delay of a call of withRetry, taken after the failure of
\* attempt k < maxAttempts and before attempt k + 1, lasts
\* min(1000 * 2^(k-1), 10000) ms; no delay exceeds 10000 ms; the delays never
\* decrease; no delay follows the last attempt; and with RETRY_CONFIG the
\* delays of a call that fails throughout are 1000 ms then 2000 ms.
C25_CappedBackoff ==
  /\ \A k \in 1..Len(retry.delays) :
        /\ retry.delays[k] =
             (IF 1000 * 2 ^ (k - 1) <= 10000 THEN 1000 * 2 ^ (k - 1) ELSE 10000)
        /\ retry.delays[k] <= 10000
        /\ k > 1 => retry.delays[k - 1] <= retry.delays[k]
        /\ k < retry.maxAttempts /\ ~retry.outs[k]
  /\ retry.pc = "call" => Len(retry.delays) = retry.attempt - 1
  /\ retry.pc = "delay" => Len(retry.delays) = retry.attempt
  /\ retry.pc = "returned" => Len(retry.delays) = retry.result - 1
  /\ retry.pc = "thrown" => Len(retry.delays) = retry.maxAttempts - 1
  /\ (retry.pc = "thrown" /\ retry.maxAttempts = 3) => retry.delays = << 1000, 2000 >>

\* a call whose attempts all failed has waited up to the cap
C25_Witness ==
  /\ retry.pc = "thrown" /\ retry.maxAttempts = MaxAttemptsLong
  /\ Len(retry.delays) = MaxAttemptsLong - 1
  /\ retry.delays[Len(retry.delays)] = 10000
  /\ retry.delays[1] = 1000 /\ retry.delays[2] = 2000

\* C26: a record that holds a publish outcome has no expiry, and the outcome
\* is there for good: once the stored status is POSTED_TO_X the record stays
\* without expiry and a confirmation that reads it, at any later time, ends as
\* AlreadyPublished; once it is FAILED_TO_POST the record stays present and
\* without expiry.
C26_OutcomeKeptForGood ==
  /\ [](\A id \in PostIds :
          posts[id].status \in {"POSTED_TO_X", "FAILED_TO_POST"} => ~expiring[id])
  /\ [][\A id \in PostIds :
          /\ posts[id].status = "POSTED_TO_X"
               => /\ ~expiring'[id]
                  /\ ConfirmBranch(posts'[id]) = "AlreadyPublished"
          /\ posts[id].status = "FAILED_TO_POST"
               => /\ ~expiring'[id]
                  /\ posts'[id] # NoPost]_vars

\* invocations c and d both found the change from the same snapshot to the
\* same new content
SameChange(c, d) ==
  /\ c # d
  /\ cycle[c].branch = "changed" /\ cycle[d].branch = "changed"
  /\ cycle[c].previousMarkdown = cycle[d].previousMarkdown
  /\ cycle[c].markdownContent = cycle[d].markdownContent

\* C27: two overlapping invocations that read the same snapshot and fetched
\* the same new content do not both store a draft and do not both send a
\* confirmation message for that change.
C27_OneDraftPerChange ==
  \A c, d \in Cycles :
    SameChange(c, d) =>
      /\ ~(cycle[c].draftPut = "ok" /\ cycle[d].draftPut = "ok")
      /\ ~("confirmation" \in cycle[c].notes /\ "confirmation" \in cycle[d].notes)

\* records p and q differ at most in their status
SameButStatus(p, q) ==
  /\ p.recap = q.recap /\ p.diff = q.diff
  /\ p.originalChangelogUrl = q.originalChangelogUrl
  /\ p.timestamp = q.timestamp

\* the confirmation task's put of line 373 or 377 has settled
ConfirmWrites(h) == hpc[h] = "put" /\ hpc'[h] = "notify"

\* C28: a stored draft record always has the recap, diff, url and timestamp it
\* was created with.  A record changes only when it is created under a new id,
\* when its expirationTtl runs out, or when a confirmation for its own id puts
\* it back with at most the status changed.  No step of a confirmation
\* changes the snapshot, and no step of a cycle changes or removes a record
\* that is stored.
C28_OnlyConfirmMutates ==
  /\ [](\A id \in PostIds :
          posts[id] # NoPost => SameButStatus(posts[id], created[id]))
  /\ [][/\ \A id \in PostIds :
            posts'[id] # posts[id] =>
              \/ /\ \E c \in Cycles : DraftWritten(c) /\ cycle[c].postId = id
                 /\ posts[id] = NoPost
              \/ posts'[id] = NoPost /\ expiring[id]
              \/ \E h \in Handlers :
                    /\ ConfirmWrites(h) /\ handler[h].postID = id
                    /\ SameButStatus(posts'[id], handler[h].loaded)
                    /\ posts'[id].status \in {"POSTED_TO_X", "FAILED_TO_POST"}
                    /\ \A j \in PostIds \ {id} : posts'[j] = posts[j]
        /\ (\E h \in Handlers : hpc'[h] # hpc[h]) => snapshot' = snapshot
        /\ (\E c \in Cycles : cpc'[c] # cpc[c]) =>
              \A id \in PostIds : posts[id] # NoPost => posts'[id] = posts[id]]_vars

\* of two drafts one has been confirmed and posted, the other is as created
C28_Witness ==
  /\ created[1] # NoPost /\ created[2] # NoPost
  /\ \E i, j \in PostIds :
        /\ i # j
        /\ posts[i].status = "POSTED_TO_X" /\ posts[i].recap = created[i].recap
        /\ posts[j] = created[j]
  /\ snapshot # Some(TextA)

\* the draft of invocation c was stored as a pending post
DraftPersisted(c) ==
  /\ cycle[c].postId \in PostIds
  /\ cycle[c].draftPut = "ok"
  /\ created[cycle[c].postId] # NoPost
  /\ created[cycle[c].postId].status = "PENDING_CONFIRMATION"
  /\ created[cycle[c].postId].recap = cycle[c].recap

\* C29: an invocation sends the confirmation message only when its put of
\* the pending post has resolved: whenever the message is about to be sent,
\* has been attempted or has been delivered, the record was stored before
\* under the post id the link carries.
C29_NotifyAfterPersist ==
  /\ [](\A c \in Cycles :
          (cpc[c] = "notify" \/ "confirmation" \in cycle[c].notes
             \/ cycle[c].delivered = "yes")
            => DraftPersisted(c))
  /\ [][\A c \in Cycles :
          "confirmation" \in cycle'[c].notes \ cycle[c].notes
            => DraftPersisted(c) /\ UNCHANGED << posts, created >>]_vars

\* the confirmation message of a stored draft has been delivered
C29_Witness ==
  \E c \in Cycles :
    /\ cpc[c] = "storeSnapshot" /\ cycle[c].delivered = "yes"
    /\ "confirmation" \in cycle[c].notes
    /\ posts[cycle[c].postId].status = "PENDING_CONFIRMATION"

\* the confirmation task h sends its result message and ends
ConfirmReports(h) == hpc[h] = "notify" /\ hpc'[h] = "idle"

\* C30: a confirmation task that ends has reported exactly one outcome for
\* its post id, one of not found, already published, not pending, published,
\* publish failed and unexpected error; and when its call of postToX failed,
\* the outcome reported is the publish failure, whose message carries the
\* reason postToX returned.
C30_OneOutcomeReported ==
  [][\A h \in Handlers :
       ConfirmReports(h) =>
         LET id   == handler[h].postID
             said == confirmLog'[id][Len(confirmLog'[id])]
         IN  /\ Len(confirmLog'[id]) = Len(confirmLog[id]) + 1
             /\ \A j \in PostIds \ {id} : confirmLog'[j] = confirmLog[j]
             /\ said \in {"NotFound", "AlreadyPublished", "NotPending",
                           "Published", "PublishFailed", "Error"}
             /\ (handler[h].publisherCalls = 1 /\ ~handler[h].success)
                  => said = "PublishFailed"]_vars

\* C31: the text postToX sends is the recap itself when the recap has at
\* most 280 code units; otherwise it is the first 277 code units of the recap
\* followed by "...", 280 code units in all; it is never longer than 280.
C31_TweetTruncated ==
  tweet.pc = "done" =>
    /\ Len(tweet.recap) <= 280 => tweet.tweetText = tweet.recap
    /\ Len(tweet.recap) > 280 =>
          /\ Len(tweet.tweetText) = 280
          /\ \A k \in 1..277 : tweet.tweetText[k] = tweet.recap[k]
          /\ \A k \in 278..280 : tweet.tweetText[k] = 46
    /\ Len(tweet.tweetText) <= 280

\* a recap of 281 code units has been cut to 277 and the dots
C31_Witness ==
  /\ tweet.pc = "done"
  /\ Len(tweet.recap) = 281
  /\ Len(tweet.tweetText) = 280 /\ tweet.tweetText[280] = 46
  /\ tweet.tweetText[277] = tweet.recap[277]

\* the lines of a text
LinesOf(text) == { text[k][1] : k \in 1..Len(text) }

\* how many lines of a rendered diff carry the mark
Marked(result, mark) == Cardinality({ k \in 1..Len(result) : result[k][1] = mark })

\* C32: a rendered diff other than the sentinel consists of the added lines
\* of the new text, each once and marked "+", and of the removed lines of the
\* old text, each once and marked "-": it has as many "+" lines as diffLines
\* found added lines and as many "-" lines as it found removed lines, and no
\* other line, neither an unchanged one nor one that is in neither text.
C32_RenderedDiffLines ==
  (compare.pc = "done" /\ compare.result # NoDiff) =>
    LET script == EditScript(compare.oldText, compare.newText, 1, 1)
    IN  /\ \A k \in 1..Len(compare.result) :
              \/ /\ compare.result[k][1] = "+"
                 /\ compare.result[k][2] \in LinesOf(compare.newText)
              \/ /\ compare.result[k][1] = "-"
                 /\ compare.result[k][2] \in LinesOf(compare.oldText)
        /\ Marked(compare.result, "+") = Len(OpsOf(script, "+"))
        /\ Marked(compare.result, "-") = Len(OpsOf(script, "-"))
====
